---- MODULE Spec2Model ----
(***************************************************************************)
(* A model of the synthetic-tree environment (src/tree_env.py) and of the  *)
(* MCTS driver (src/mcts.py).                                              *)
(*                                                                         *)
(* Numbers.  The program computes in IEEE doubles.  The model keeps every  *)
(* value that the program obtains by +, -, *, / from its inputs as an      *)
(* exact rational (op = "num"), the result of 0/0 as NaN (op = "nan"), and *)
(* every value that goes through exp/log (the ments, rents and tents       *)
(* backups, the ments and rents solvers) as the application of the         *)
(* operator to its arguments (op = "ments", ...): two equal applications   *)
(* denote the same double.  Rounding of the last bit and overflow of exp   *)
(* are not modelled.  Where the tents search sorts and compares values it  *)
(* has obtained through exp, the model reads them in fixed point (Double). *)
(***************************************************************************)
EXTENDS Integers, Sequences, FiniteSets, TLC

(***************************************************************************)
(* Bounds of the model and the input grids.                                *)
(***************************************************************************)
\* largest branching factor k and depth d given to SyntheticTree
MaxK == 2
MaxD == 2
\* largest number of nodes of a constructed tree
MaxNodes == 7
\* total number of simulations over all run calls on one tree
MaxSims == 2
\* the "large" exploration coefficient (the other one is 0)
CLarge == 100
\* temperature tau (> 0) of the tree's solver
Tau == 1
\* np.random.rand draws 0 or 1 grid step per edge (the scale cancels in the
\* min-max normalisation of the leaf means); the weight vectors enumerated are
\* those whose binary code is at most MaxWeightCode
MaxWeightCode == 3
\* np.random.normal draws of rollout
RolloutSamples == {-1, 2}
\* algorithm identifiers handed to SyntheticTree and MCTS
Algorithms == {"uct", "ments", "rents", "tents", "w-mcts", "bogus"}
ExplorationCoeffs == {0, CLarge}
\* Python's None, where the program holds a node id or nothing
None == -1

(***************************************************************************)
(* Values: exact rationals, NaN, and applications of exp/log operators.    *)
(***************************************************************************)
Abs(x) == IF x < 0 THEN -x ELSE x

RECURSIVE GCD(_, _)
GCD(a, b) == IF b = 0 THEN a ELSE GCD(b, a % b)

NaN == [op |-> "nan", num |-> 0, den |-> 0, args |-> <<>>, ns |-> <<>>]
Unset == [op |-> "unset", num |-> 0, den |-> 0, args |-> <<>>, ns |-> <<>>]

\* the rational n/d (d # 0) in lowest terms with a positive denominator
Num(n, d) ==
    LET g == GCD(Abs(n), Abs(d))
        s == IF d < 0 THEN -1 ELSE 1
    IN  [op |-> "num", num |-> (s * n) \div g, den |-> (s * d) \div g,
         args |-> <<>>, ns |-> <<>>]

IntVal(n) == Num(n, 1)

\* an application of an exp/log operator to values (args) and counts (ns)
Sym(o, as, cs) == [op |-> o, num |-> 0, den |-> 1, args |-> as, ns |-> cs]

IsNum(v) == v.op = "num"
IsNaN(v) == v.op = "nan"

RatAdd(a, b) ==
    IF IsNum(a) /\ IsNum(b)
    THEN Num(a.num * b.den + b.num * a.den, a.den * b.den)
    ELSE NaN

RatSub(a, b) ==
    IF IsNum(a) /\ IsNum(b)
    THEN Num(a.num * b.den - b.num * a.den, a.den * b.den)
    ELSE NaN

RatMul(a, b) ==
    IF IsNum(a) /\ IsNum(b) THEN Num(a.num * b.num, a.den * b.den) ELSE NaN

\* IEEE division as numpy does it: 0/0 is NaN (a warning, no exception).
\* A nonzero numerator over 0 (inf) does not occur: the program only divides
\* by a sum or a range of values that is 0 when all of them are.
RatDiv(a, b) ==
    IF IsNum(a) /\ IsNum(b) /\ b.num # 0
    THEN Num(a.num * b.den, a.den * b.num)
    ELSE NaN

\* a > b on doubles: False when either is NaN
RatGt(a, b) ==
    IsNum(a) /\ IsNum(b) /\ a.num * b.den > b.num * a.den

RatEq(a, b) == IsNum(a) /\ IsNum(b) /\ a = b

RECURSIVE SeqSum(_)
SeqSum(s) == IF s = <<>> THEN IntVal(0) ELSE RatAdd(s[1], SeqSum(Tail(s)))

RECURSIVE IntSum(_)
IntSum(s) == IF s = <<>> THEN 0 ELSE s[1] + IntSum(Tail(s))

Range(s) == {s[j] : j \in DOMAIN s}

\* np.max / np.min of a non-empty array: NaN if any entry is NaN
SeqMax(s) ==
    IF \E j \in DOMAIN s : ~IsNum(s[j]) THEN NaN
    ELSE CHOOSE m \in Range(s) : \A x \in Range(s) : ~RatGt(x, m)

\* np.sort: ascending, NaN last
RECURSIVE SortAsc(_)
SortAsc(s) ==
    IF s = <<>> THEN <<>>
    ELSE LET j == CHOOSE a \in DOMAIN s :
                     /\ (IsNum(s[a]) \/ \A b \in DOMAIN s : ~IsNum(s[b]))
                     /\ \A b \in DOMAIN s : ~RatGt(s[a], s[b])
             rest == [x \in 1..(Len(s) - 1) |-> IF x < j THEN s[x] ELSE s[x + 1]]
         IN  <<s[j]>> \o SortAsc(rest)

\* np.flip
Flip(s) == [j \in 1..Len(s) |-> s[Len(s) + 1 - j]]

(***************************************************************************)
(* The graph: nx.balanced_tree(k, d, create_using=nx.DiGraph).             *)
(***************************************************************************)
RECURSIVE Pow(_, _)
Pow(b, e) == IF e = 0 THEN 1 ELSE b * Pow(b, e - 1)

\* networkx: n = h + 1 if r == 1 else (1 - r ** (h + 1)) // (1 - r)
BalancedTreeNodes(r, h) ==
    IF r = 1 THEN h + 1 ELSE (Pow(r, h + 1) - 1) \div (r - 1)

\* networkx _tree_edges(n, r): breadth first, node i gets the next r unused
\* ids; the edges in the order the graph iterates them
BalancedTreeEdges(r, h) ==
    LET n == BalancedTreeNodes(r, h)
    IN  IF r = 0 THEN <<>>
        ELSE [j \in 1..(n - 1) |-> << (j - 1) \div r, j >>]

\* tree.edges(node): the out-edges of node, in adjacency order
OutEdges(E, node) == SelectSeq(E, LAMBDA e : e[1] = node)
\* tree.successors(node)
Successors(E, node) ==
    LET oe == OutEdges(E, node) IN [j \in 1..Len(oe) |-> oe[j][2]]
OutDegree(E, node) == Len(OutEdges(E, node))
InDegree(E, node) == Len(SelectSeq(E, LAMBDA e : e[2] = node))

\* self.leaves = [x for x in nodes if out_degree(x) == 0 and in_degree(x) == 1]
RECURSIVE LeavesFrom(_, _, _)
LeavesFrom(E, n, x) ==
    IF x >= n THEN <<>>
    ELSE (IF OutDegree(E, x) = 0 /\ InDegree(E, x) = 1 THEN <<x>> ELSE <<>>)
         \o LeavesFrom(E, n, x + 1)
Leaves(E, n) == LeavesFrom(E, n, 0)

(***************************************************************************)
(* SyntheticTree.__init__ : leaf means, priors, maxima.                    *)
(***************************************************************************)
\* _compute_mean(node, weight): the <<leaf, cumulative weight>> pairs assigned
RECURSIVE ComputeMean(_, _, _, _, _)
ComputeMean(E, L, W, node, w) ==
    IF node \notin Range(L)
    THEN UNION {ComputeMean(E, L, W, e[2], w + W[e]) : e \in Range(OutEdges(E, node))}
    ELSE {<<node, w>>}

\* the raw mean _compute_mean leaves on a leaf
RawMean(E, L, W, leaf) ==
    (CHOOSE p \in ComputeMean(E, L, W, 0, 0) : p[1] = leaf)[2]

IntMin(S) == CHOOSE m \in S : \A x \in S : m <= x
IntMax(S) == CHOOSE m \in S : \A x \in S : m >= x

\* means = (means - means.min()) / (means.max() - means.min())
\*         if len(means) > 1 else [0.]
NormalizedMeans(E, L, W) ==
    LET raw == [j \in 1..Len(L) |-> RawMean(E, L, W, L[j])]
    IN  IF Len(raw) > 1
        THEN LET lo == IntMin(Range(raw))
                 hi == IntMax(Range(raw))
             IN  [j \in 1..Len(raw) |-> RatDiv(IntVal(raw[j] - lo), IntVal(hi - lo))]
        ELSE <<IntVal(0)>>

\* the mean a leaf holds after the normalisation loop (lines 56-57)
LeafMean(E, L, W, leaf) ==
    LET j == CHOOSE x \in 1..Len(L) : L[x] = leaf
    IN  NormalizedMeans(E, L, W)[j]

\* self.max_mean = max(self.max_mean, mean) over the leaves, from 0 (Python's
\* max keeps its first argument when the comparison with NaN is False)
RECURSIVE MaxMeanFrom(_, _)
MaxMeanFrom(acc, ms) ==
    IF ms = <<>> THEN acc
    ELSE MaxMeanFrom(IF RatGt(ms[1], acc) THEN ms[1] ELSE acc, Tail(ms))
MaxMean(E, L, W) == MaxMeanFrom(IntVal(0), NormalizedMeans(E, L, W))

\* _assign_priors_maxs(node): the array `means` it builds at node
RECURSIVE ChildMeans(_, _, _, _)
ChildMeans(E, L, W, node) ==
    LET succ == Successors(E, node)
    IN  IF succ[1] \notin Range(L)
        THEN [j \in 1..Len(succ) |-> SeqMax(ChildMeans(E, L, W, succ[j]))]
        ELSE [j \in 1..Len(succ) |-> LeafMean(E, L, W, succ[j])]

\* successors[0] of a node without successors: IndexError
AssignPriorsRaises(E) == Successors(E, 0) = <<>>

\* tree.nodes[node]['prior'] = means / means.sum()
PriorOf(E, L, W, node) ==
    LET means == ChildMeans(E, L, W, node)
        total == SeqSum(means)
    IN  [j \in 1..Len(means) |-> RatDiv(means[j], total)]

\* tree.nodes[node]['mean'] after construction
MeanOf(E, L, W, node) ==
    IF node \in Range(L) THEN LeafMean(E, L, W, node)
    ELSE SeqMax(ChildMeans(E, L, W, node))


(***************************************************************************)
(* The sparse-max support set kappa (0-based indices, in the order found). *)
(***************************************************************************)
\* np.argwhere(temp == v).ravel()[0], as a 1-based position
FirstMatch(temp, v) ==
    CHOOSE j \in DOMAIN temp :
        /\ RatEq(temp[j], v)
        /\ \A x \in 1..(j - 1) : ~RatEq(temp[x], v)

\* the loop of tree_env.py lines 219-223 (and mcts.py lines 52-56, 116-120) on
\* the array `sorted`, from its i-th pass on
RECURSIVE KappaLoop(_, _, _, _)
KappaLoop(sorted, i, temp, kappa) ==
    IF i > Len(sorted) THEN kappa
    ELSE IF RatGt(RatAdd(IntVal(1), RatMul(IntVal(i), sorted[i])),
                  SeqSum(SubSeq(sorted, 1, i)))
         THEN LET idx == FirstMatch(temp, sorted[i])
              IN  KappaLoop(sorted, i + 1, [temp EXCEPT ![idx] = NaN],
                            Append(kappa, idx - 1))
         ELSE KappaLoop(sorted, i + 1, temp, kappa)

\* _solver.sparse_max: sorted_means = np.flip(np.sort(temp_means_tau))
SparseMaxKappa(means_tau) ==
    KappaLoop(Flip(SortAsc(means_tau)), 1, means_tau, <<>>)

(***************************************************************************)
(* The doubles the tents search compares, in fixed point: Scale stands for *)
(* 1.0.  The search is run with the solver's temperature Tau.              *)
(***************************************************************************)
Scale == 1000

\* the rational n/d in fixed point
Fixed(n, dd) == (n * Scale) \div dd

\* np.exp of a fixed-point x: 0 below exp(-7), 1/exp(-x) for x < 0, the
\* square of exp(x/2) above 1, and the Taylor polynomial of degree 8 else
RECURSIVE ExpFix(_)
ExpFix(x) ==
    IF x < -7 * Scale THEN 0
    ELSE IF x < 0 THEN (Scale * Scale) \div ExpFix(-x)
    ELSE IF x > Scale
    THEN LET h == ExpFix(x \div 2) IN (h * h) \div Scale
    ELSE LET t2 == (x * x) \div (2 * Scale)
             t3 == (t2 * x) \div (3 * Scale)
             t4 == (t3 * x) \div (4 * Scale)
             t5 == (t4 * x) \div (5 * Scale)
             t6 == (t5 * x) \div (6 * Scale)
             t7 == (t6 * x) \div (7 * Scale)
             t8 == (t7 * x) \div (8 * Scale)
         IN  Scale + x + t2 + t3 + t4 + t5 + t6 + t7 + t8

\* mcts.py lines 47-61 on fixed-point Q values qf with support kappa (0-based):
\*   sparse_max = q_exp_tau / 2 - (q_exp_tau[kappa] - 1) ** 2 / (2 * len(kappa) ** 2)
\*   V = tau * (sparse_max.sum() + .5)
\* (the second array has len(kappa) entries and is broadcast to the first)
TentsFix(qf, kappa) ==
    LET n == Len(qf)
        m == Len(kappa)
        e == [j \in 1..n |-> ExpFix(qf[j] \div Tau)]
        sq == [j \in 1..m |->
                 ((e[kappa[j] + 1] - Scale) * (e[kappa[j] + 1] - Scale))
                     \div (2 * m * m * Scale)]
    IN  Tau * (IntSum([j \in 1..n |-> e[j] \div 2])
               - (IF m = 1 THEN n * sq[1] ELSE IntSum(sq))
               + Scale \div 2)

\* the fixed-point reading of a value: of a rational, and of a V the tents
\* backup has computed from the Q values v.args with the support v.ns
RECURSIVE FixedOf(_)
FixedOf(v) ==
    IF IsNum(v) THEN Fixed(v.num, v.den)
    ELSE TentsFix([j \in 1..Len(v.args) |-> FixedOf(v.args[j])], v.ns)

\* the double a Q value is to the tents search: the rational itself, NaN, or
\* the fixed-point reading of a tents V
Double(v) ==
    IF IsNum(v) \/ IsNaN(v) THEN v
    ELSE Num(FixedOf(v), Scale)

Doubles(qs) == [j \in 1..Len(qs) |-> Double(qs[j])]

\* MCTS: sorted_q = np.sort(qs), indexed sorted_q[i] while enumerating
\* reversed(sorted_q)
MctsKappa(qs) == KappaLoop(SortAsc(Doubles(qs)), 1, Doubles(qs), <<>>)

(***************************************************************************)
(* SyntheticTree._solver                                                   *)
(***************************************************************************)
\* the identifiers _solver has a branch for ("alpha-divergence" is none of
\* the Algorithms the model constructs trees with)
SolverAlgorithms ==
    {"w-mcts", "dng", "uct", "ments", "rents", "alpha-divergence", "tents"}

IndexError == [op |-> "IndexError", num |-> 0, den |-> 0, args |-> <<>>, ns |-> <<>>]

\* sparse_max(means_tau) of the tents branch; means_tau[kappa] with an empty
\* kappa (a float array) is an IndexError
SparseMax(means_tau) ==
    LET kappa == SparseMaxKappa(means_tau)
        sel == [j \in 1..Len(kappa) |-> means_tau[kappa[j] + 1]]
        total == SeqSum(sel)
        sq(x) == RatMul(x, x)
        term(j) == RatSub(RatDiv(sq(sel[j]), IntVal(2)),
                          RatDiv(sq(RatSub(total, IntVal(1))),
                                 IntVal(2 * Len(kappa) * Len(kappa))))
    IN  IF kappa = <<>> THEN IndexError
        ELSE RatAdd(SeqSum([j \in 1..Len(kappa) |-> term(j)]), Num(1, 2))

\* _solver(node)[0] for ments, rents and tents; x is the array of the
\* successors' means (above the leaves) or of their own solver values
RECURSIVE SoftSolver(_, _, _, _, _)
SoftSolverX(alg, E, L, W, node) ==
    LET succ == Successors(E, node)
    IN  IF succ[1] \in Range(L)
        THEN [j \in 1..Len(succ) |-> MeanOf(E, L, W, succ[j])]
        ELSE [j \in 1..Len(succ) |-> SoftSolver(alg, E, L, W, succ[j])]
SoftSolver(alg, E, L, W, node) ==
    LET x == SoftSolverX(alg, E, L, W, node)
    IN  IF \E j \in DOMAIN x : x[j] = IndexError THEN IndexError
        ELSE IF alg = "ments" THEN Sym("solver_ments", x, <<>>)
        ELSE IF alg = "rents" THEN Sym("solver_rents", x \o PriorOf(E, L, W, node), <<>>)
        ELSE LET sm == SparseMax([j \in 1..Len(x) |-> RatDiv(x[j], IntVal(Tau))])
             IN  IF sm = IndexError THEN IndexError ELSE RatMul(IntVal(Tau), sm)

\* the pair _solver() returns at the root: <<optimal_v_root, q_root>>
Solver(alg, E, L, W) ==
    IF alg \in {"w-mcts", "dng", "uct"}
    THEN << MaxMean(E, L, W),
            [j \in 1..OutDegree(E, 0) |-> MeanOf(E, L, W, Successors(E, 0)[j])] >>
    ELSE << SoftSolver(alg, E, L, W, 0), SoftSolverX(alg, E, L, W, 0) >>

\* a solver whose last branch takes every identifier left
SolverErrorDefault(alg, E, L, W) ==
    IF alg = "tents" /\ SoftSolver(alg, E, L, W, 0) = IndexError THEN "IndexError"
    ELSE "none"

\* "ValueError" (no branch for the identifier), "IndexError" (tents with an
\* empty support) or "none"
SolverError(alg, E, L, W) ==
    IF alg \notin SolverAlgorithms THEN "ValueError"
    ELSE IF alg = "tents" /\ SoftSolver(alg, E, L, W, 0) = IndexError THEN "IndexError"
    ELSE "none"


(***************************************************************************)
(* State.                                                                  *)
(***************************************************************************)
VARIABLES
    status,          \* "new", "constructed", or "failed" (__init__ raised)
    k, d, algorithm, \* SyntheticTree._k, _d, _algorithm
    n_nodes, edges,  \* SyntheticTree._tree: nodes 0..n_nodes-1, edge list
    weight, eN, eQ,  \* edge attributes 'weight', 'N', 'Q', keyed by edge
    nN, nV,          \* node attributes 'N', 'V'
    mean, prior,     \* node attributes 'mean', 'prior'
    leaves,          \* SyntheticTree.leaves
    max_mean, optimal_v_root, q_root,
    state,           \* SyntheticTree.state, the cursor
    mcts,            \* the MCTS object: exploration coefficient, algorithm
    pc,              \* where MCTS.run stands; "idle" outside run
    n_simulations, i, v_hat,  \* the locals of run
    path,            \* the edges _navigate has walked in this simulation
    bi,              \* the position of the backup loop in reversed(path)
    probs,           \* the last vector handed to np.random.choice(.., p=)
    kappa_log,       \* the last support set the search computed, and its input
    sims,            \* simulations completed on this tree
    last             \* the last call made and how it ended

topo == <<k, d, algorithm, n_nodes, edges, weight, mean, prior, leaves,
          max_mean, optimal_v_root, q_root>>
stats == <<eN, eQ, nN, nV>>
frame == <<pc, n_simulations, i, v_hat, path, bi>>
vars == <<status, topo, stats, state, mcts, frame, probs, kappa_log, sims, last>>

Nodes == 0..(n_nodes - 1)
NoMcts == [exploration_coeff |-> -1, algorithm |-> "none"]
NoProbs == [size |-> -1, entries |-> <<>>, sum |-> "none", n_actions |-> -1]
NoKappa == [at |-> "none", qs |-> <<>>, kappa |-> <<>>]
Call(o, a, f, r, x) == [op |-> o, arg |-> a, from |-> f, ret |-> r, raised |-> x]

Init ==
    /\ status = "new"
    /\ k = 0 /\ d = 0 /\ algorithm = "none"
    /\ n_nodes = 0 /\ edges = <<>>
    /\ weight = <<>> /\ eN = <<>> /\ eQ = <<>>
    /\ nN = <<>> /\ nV = <<>> /\ mean = <<>> /\ prior = <<>>
    /\ leaves = <<>>
    /\ max_mean = IntVal(0) /\ optimal_v_root = Unset /\ q_root = <<>>
    /\ state = None
    /\ mcts = NoMcts
    /\ pc = "idle"
    /\ n_simulations = 0 /\ i = 0 /\ v_hat = <<>>
    /\ path = <<>> /\ bi = 0
    /\ probs = NoProbs /\ kappa_log = NoKappa
    /\ sims = 0
    /\ last = Call("none", None, None, None, "none")

(***************************************************************************)
(* SyntheticTree(k, d, algorithm, tau, alpha, gamma)                       *)
(***************************************************************************)
\* the exception __init__ ends with, or "none"
ConstructError(alg, E, L, W) ==
    IF AssignPriorsRaises(E) THEN "IndexError" ELSE SolverError(alg, E, L, W)

Construct(kk, dd, alg, W) ==
    LET n == BalancedTreeNodes(kk, dd)
        E == BalancedTreeEdges(kk, dd)
        L == Leaves(E, n)
        err == ConstructError(alg, E, L, W)
        assigned == ~AssignPriorsRaises(E)
    IN  /\ status = "new"
        /\ k' = kk /\ d' = dd /\ algorithm' = alg
        /\ n_nodes' = n /\ edges' = E
        /\ weight' = W
        /\ eN' = [e \in Range(E) |-> 0]
        /\ eQ' = [e \in Range(E) |-> IntVal(0)]
        /\ nN' = [x \in 0..(n - 1) |-> 0]
        /\ nV' = [x \in 0..(n - 1) |-> IntVal(0)]
        /\ leaves' = L
        /\ max_mean' = MaxMean(E, L, W)
        /\ mean' = [x \in 0..(n - 1) |->
                      IF x \in Range(L) THEN LeafMean(E, L, W, x)
                      ELSE IF assigned THEN MeanOf(E, L, W, x) ELSE Unset]
        /\ prior' = [x \in 0..(n - 1) |->
                      IF assigned /\ x \notin Range(L) THEN PriorOf(E, L, W, x)
                      ELSE <<>>]
        /\ optimal_v_root' = IF err = "none" THEN Solver(alg, E, L, W)[1] ELSE Unset
        /\ q_root' = IF err = "none" THEN Solver(alg, E, L, W)[2] ELSE <<>>
        /\ status' = IF err = "none" THEN "constructed" ELSE "failed"
        /\ state' = IF err = "none" THEN 0 ELSE None
        /\ last' = Call("construct", None, None, None, err)
        /\ UNCHANGED <<mcts, frame, probs, kappa_log, sims>>

(***************************************************************************)
(* SyntheticTree.reset and SyntheticTree.step                              *)
(***************************************************************************)
\* a reset that leaves the cursor alone when it is given no state
ResetStateKeep(s) == IF s # None THEN s ELSE state

\* the cursor reset(state) sets
ResetState(s) == IF s # None THEN s ELSE 0

\* edges[action] on the Python list `edges`: the 1-based position read, or 0
\* for an IndexError
ListIndex(len, action) ==
    IF 0 <= action /\ action < len THEN action + 1
    ELSE IF -len <= action /\ action < 0 THEN len + action + 1
    ELSE 0

\* the cursor step(action) sets at cursor s, or None for an IndexError
StepState(E, s, action) ==
    LET oe == OutEdges(E, s)
        pos == ListIndex(Len(oe), action)
    IN  IF pos = 0 THEN None ELSE oe[pos][2]

\* The client moves the cursor by hand (reset(s), step) on the tree it has
\* built, before it builds the search; between runs it calls reset().
Reset(s) ==
    /\ status = "constructed" /\ pc = "idle"
    /\ s # None => mcts = NoMcts
    /\ state' = ResetState(s)
    /\ last' = Call("reset", s, state, ResetState(s), "none")
    /\ UNCHANGED <<status, topo, stats, mcts, frame, probs, kappa_log, sims>>

Step(action) ==
    /\ status = "constructed" /\ pc = "idle"
    /\ mcts = NoMcts
    /\ LET nxt == StepState(edges, state, action)
       IN  IF nxt = None
           THEN /\ state' = state
                /\ last' = Call("step", action, state, None, "IndexError")
           ELSE /\ state' = nxt
                /\ last' = Call("step", action, state, nxt, "none")
    /\ UNCHANGED <<status, topo, stats, mcts, frame, probs, kappa_log, sims>>


(***************************************************************************)
(* MCTS._select                                                            *)
(*                                                                         *)
(* What the model keeps of a probability vector is what np.random.choice   *)
(* reads: its size, the sign of each entry ("zero", "pos", or "nonneg"     *)
(* where the sign of max(.., 0) depends on the value of exp), and where    *)
(* its sum lies ("zero", "below" 1, "one", "above" 1).                     *)
(***************************************************************************)
MctsAlgorithms == {"uct", "ments", "rents", "tents"}

\* the least integer m with e^m >= x + 1e-10, for the totals in reach
LogCeil(x) ==
    IF x <= 2 THEN 1 ELSE IF x <= 7 THEN 2 ELSE IF x <= 20 THEN 3 ELSE 4

\* lambda_coeff = np.clip(c * n_actions / np.log(sum(N) + 1 + 1e-10), 0, 1):
\* "zero" (c = 0), "one" (c * n_actions >= the logarithm) or "mid"
LambdaCoeff(c, n_actions, total) ==
    IF c * n_actions = 0 THEN "zero"
    ELSE IF c * n_actions >= LogCeil(total + 1) THEN "one"
    ELSE "mid"

\* ucb_values[a] > ucb_values[b].  With n_state = 1 the bonus is
\* c * sqrt(log(1) / ..) = 0, and so it is with c = 0: the Q values decide.
\* With c = CLarge and n_state >= 2 the bonus c * sqrt(log(n_state) / (N + 1e-10))
\* of a less visited edge exceeds that of a more visited one by more than any
\* two Q values differ, and the Q values decide between equal counts.
UcbGt(c, qs, ns, a, b) ==
    IF c = 0 \/ IntSum(ns) = 1 THEN RatGt(qs[a], qs[b])
    ELSE ns[a] < ns[b] \/ (ns[a] = ns[b] /\ RatGt(qs[a], qs[b]))

\* np.argwhere(ucb_values == np.max(ucb_values)).ravel(), 0-based; with a
\* NaN among the Q values np.max is NaN and nothing equals it
UctArgmax(c, qs, ns) ==
    IF IntSum(ns) > 0
    THEN IF \E y \in DOMAIN qs : IsNaN(qs[y]) THEN {}
         ELSE {a - 1 : a \in {x \in DOMAIN qs : \A y \in DOMAIN qs : ~UcbGt(c, qs, ns, y, x)}}
    ELSE {a - 1 : a \in DOMAIN qs}

Probs(es, sm, n) == [size |-> Len(es), entries |-> es, sum |-> sm, n_actions |-> n]

\* q_exp_tau / q_exp_tau.sum() with a NaN among the Q values: every entry of
\* probs is NaN, whatever lambda_coeff is (0 * nan is nan)
HasNaN(qs) == \E a \in DOMAIN qs : IsNaN(qs[a])
NaNProbs(n) == Probs([a \in 1..n |-> "nan"], "nan", n)

\* ments: (1 - lambda) * q_exp_tau / q_exp_tau.sum() + lambda / n_actions
MentsProbs(lam, qs) ==
    IF HasNaN(qs) THEN NaNProbs(Len(qs))
    ELSE Probs([a \in 1..Len(qs) |-> "pos"], "one", Len(qs))

\* rents: (1 - lambda) * visitation_ratio * q_exp_tau / q_exp_tau.sum()
\*        + lambda / n_actions, visitation_ratio = N(edge) / (N(node) + 1e-10)
RentsProbs(lam, qs, ns, node_n) ==
    IF HasNaN(qs) THEN NaNProbs(Len(qs))
    ELSE
    Probs([a \in 1..Len(qs) |-> IF lam = "zero" /\ ns[a] = 0 THEN "zero" ELSE "pos"],
          IF lam = "one" THEN "one"
          ELSE IF \A a \in DOMAIN ns : ns[a] = 0
               THEN (IF lam = "zero" THEN "zero" ELSE "below")
          ELSE IF IntSum(ns) <= node_n THEN "below"
          ELSE "unknown",
          Len(qs))

\* probs[np.random.randint(len(probs))] += 1 - probs.sum(), at 0-based j
AddResidual(p, j) ==
    IF p.sum = "nan" THEN p
    ELSE
    [p EXCEPT !.entries[j + 1] = IF p.sum \in {"zero", "below"} THEN "pos"
                                 ELSE IF p.sum = "one" THEN @
                                 ELSE "unknown",
              !.sum = "one"]

\* tents: q_exp_tau = q_exp_tau[kappa];
\*   max_omega = max(q_exp_tau - (q_exp_tau - 1).sum() / len(kappa), 0);
\*   probs = (1 - lambda) * max_omega + lambda / n_actions.
\* The entries of max_omega sum to at least len(kappa), and to len(kappa)
\* exactly when none is clipped at 0.
TentsProbs(lam, qs, kappa) ==
    LET n == Len(qs)
        m == Len(kappa)
        x == Doubles(qs)
        flat == \A a \in DOMAIN kappa : x[kappa[a] + 1] = x[kappa[1] + 1]
    IN  Probs([a \in 1..m |-> IF lam = "one" \/ flat THEN "pos" ELSE "nonneg"],
              IF lam = "one"
              THEN (IF m = n THEN "one" ELSE IF m = 0 THEN "zero" ELSE "below")
              ELSE IF m = 0 THEN "zero"
              ELSE IF m = 1 THEN (IF lam = "zero" \/ n = 1 THEN "one" ELSE "below")
              ELSE IF lam = "zero" \/ m = n THEN "above"
              ELSE "unknown",
              n)

\* np.random.choice(np.arange(n_actions), p=probs) raises ValueError (sizes
\* differ, NaN among the probabilities, a sum that is not 1)
ChoiceRaises(p) ==
    \/ p.size # p.n_actions
    \/ p.sum # "one"
    \/ \E a \in DOMAIN p.entries : p.entries[a] = "neg"

\* the indices np.random.choice can return, 0-based
ChoiceSupport(p) == {a - 1 : a \in {x \in DOMAIN p.entries : p.entries[x] # "zero"}}

\* _select: the vectors it can hand to np.random.choice (one per index the
\* residual can be added to); none for uct and for an unknown identifier
SelectProbs(alg, c, qs, ns, node_n) ==
    LET lam == LambdaCoeff(c, Len(qs), IntSum(ns))
    IN  IF alg = "ments"
        THEN {AddResidual(MentsProbs(lam, qs), j) : j \in 0..(Len(qs) - 1)}
        ELSE IF alg = "rents"
        THEN {AddResidual(RentsProbs(lam, qs, ns, node_n), j) : j \in 0..(Len(qs) - 1)}
        ELSE IF alg = "tents"
        THEN {TentsProbs(lam, qs, MctsKappa(qs))}
        ELSE {NoProbs}

\* _select raises ValueError: no branch for the identifier
SelectRaises(alg) == alg \notin MctsAlgorithms


(***************************************************************************)
(* MCTS(exploration_coeff, algorithm, tau) and MCTS.run                    *)
(***************************************************************************)
\* The experiments build the tree and the search with the same identifier; a
\* search with an identifier _select has no branch for is built on any tree.
MCTSInit(c, alg) ==
    /\ status = "constructed" /\ pc = "idle"
    /\ mcts = NoMcts
    /\ alg = algorithm \/ alg \notin MctsAlgorithms
    /\ mcts' = [exploration_coeff |-> c, algorithm |-> alg]
    /\ last' = Call("mcts", None, None, None, "none")
    /\ UNCHANGED <<status, topo, stats, state, frame, probs, kappa_log, sims>>

\* run: v_hat = np.zeros(n_simulations)
RunCall(n) ==
    /\ status = "constructed" /\ pc = "idle"
    /\ mcts # NoMcts
    /\ sims + n <= MaxSims
    /\ n_simulations' = n
    /\ i' = 0
    /\ v_hat' = [j \in 1..n |-> IntVal(0)]
    /\ path' = <<>> /\ bi' = 0
    /\ pc' = "loop"
    /\ last' = Call("run_call", n, None, None, "none")
    /\ UNCHANGED <<status, topo, stats, state, mcts, probs, kappa_log, sims>>

\* run: the loop's next pass begins with tree_env.reset()
SimBegin ==
    /\ pc = "loop" /\ i < n_simulations
    /\ state' = ResetState(None)
    /\ path' = <<>>
    /\ pc' = "navigate"
    /\ last' = Call("reset", None, state, ResetState(None), "none")
    /\ UNCHANGED <<status, topo, stats, mcts, n_simulations, i, v_hat, bi,
                   probs, kappa_log, sims>>

\* run: return v_hat
RunReturn ==
    /\ pc = "loop" /\ i >= n_simulations
    /\ pc' = "idle"
    /\ last' = Call("run", n_simulations, None, None, "none")
    /\ UNCHANGED <<status, topo, stats, state, mcts, n_simulations, i, v_hat,
                   path, bi, probs, kappa_log, sims>>

\* a walk that stops after its first edge
NavigateDoneFirst(next_state) == TRUE

\* _navigate stops: next_state in tree_env.leaves
NavigateDone(next_state) == next_state \in Range(leaves)

\* an exception leaves run: the caller has the tree as it stands
Raise(err) ==
    /\ pc' = "idle"
    /\ last' = Call("run", n_simulations, None, None, err)

\* one call of _navigate: _select at the cursor, then step
Navigate ==
    /\ pc = "navigate"
    /\ LET oe == OutEdges(edges, state)
           ns == [a \in 1..Len(oe) |-> eN[oe[a]]]
           qs == [a \in 1..Len(oe) |-> eQ[oe[a]]]
           alg == mcts.algorithm
           c == mcts.exploration_coeff
           move(a) ==
               LET nxt == StepState(edges, state, a)
               IN  IF nxt = None
                   THEN /\ Raise("IndexError")
                        /\ UNCHANGED <<state, path>>
                   ELSE /\ state' = nxt
                        /\ path' = Append(path, <<state, nxt>>)
                        /\ pc' = IF NavigateDone(nxt) THEN "rollout" ELSE "navigate"
                        /\ last' = Call("step", a, state, nxt, "none")
       IN  IF alg = "uct"
           THEN /\ UNCHANGED <<probs, kappa_log>>
                /\ IF UctArgmax(c, qs, ns) = {}
                   THEN /\ Raise("ValueError")
                        /\ UNCHANGED <<state, path>>
                   ELSE \E a \in UctArgmax(c, qs, ns) : move(a)
           ELSE IF SelectRaises(alg)
           THEN /\ Raise("ValueError")
                /\ UNCHANGED <<state, path, probs, kappa_log>>
           ELSE \E p \in SelectProbs(alg, c, qs, ns, nN[state]) :
                  /\ probs' = p
                  /\ kappa_log' = IF alg = "tents"
                                  THEN [at |-> "select", qs |-> Doubles(qs),
                                        kappa |-> MctsKappa(qs)]
                                  ELSE kappa_log
                  /\ IF ChoiceRaises(p)
                     THEN /\ Raise(IF alg = "tents" /\ p.size = 0
                                   THEN "IndexError" ELSE "ValueError")
                          /\ UNCHANGED <<state, path>>
                     ELSE \E a \in ChoiceSupport(p) : move(a)
    /\ UNCHANGED <<status, topo, stats, mcts, n_simulations, i, v_hat, bi, sims>>

\* a visit count that starts over with every visit
VisitRestart(n) == 1

\* node['N'] += 1 and tree[e[0]][e[1]]['N'] += 1
Visit(n) == n + 1

\* an edge that takes its Q from its parent
EdgeQParent(e) == nV[e[1]]

\* tree[e[0]][e[1]]['Q'] = next_node['V']
EdgeQ(e) == nV[e[2]]

\* _simulation lines 22-26: the rollout and the leaf's running mean
LeafV(v, n, r) == RatDiv(RatAdd(RatMul(v, IntVal(n)), r), IntVal(n + 1))

\* rollout(state): np.random.normal(mean, scale=.5) draws r, or NaN when the
\* leaf's mean is NaN
RolloutReturn(leaf, r) == IF IsNum(mean[leaf]) THEN IntVal(r) ELSE NaN

Rollout(r) ==
    /\ pc = "rollout"
    /\ LET leaf == path[Len(path)][2]
       IN  /\ nV' = [nV EXCEPT ![leaf] = LeafV(nV[leaf], nN[leaf], RolloutReturn(leaf, r))]
           /\ nN' = [nN EXCEPT ![leaf] = Visit(@)]
    /\ bi' = Len(path)
    /\ pc' = "backup"
    /\ last' = Call("rollout", r, state, None, "none")
    \* _select has returned: its local probs is gone
    /\ probs' = NoProbs
    /\ UNCHANGED <<status, topo, eN, eQ, state, mcts, n_simulations, i, v_hat,
                   path, kappa_log, sims>>

\* the value the backup gives the parent (lines 33-61): v, n its V and N
\* before, q the edge's new Q, qs and ns the Q and N of all its out-edges
BackupV(alg, v, n, q, qs, ns) ==
    IF alg = "uct"
    THEN RatDiv(RatAdd(RatMul(v, IntVal(n)), q), IntVal(n + 1))
    ELSE IF HasNaN(qs) THEN NaN
    ELSE IF alg = "ments" THEN Sym("ments", qs, <<>>)
    ELSE IF alg = "rents" THEN Sym("rents", qs, Append(ns, n))
    ELSE Sym("tents", qs, MctsKappa(qs))

\* the backup raises: no branch for the identifier (ValueError), or the
\* arrays q_exp_tau and q_exp_tau[kappa] do not broadcast (ValueError)
BackupRaises(alg, qs) ==
    \/ alg \notin MctsAlgorithms
    \/ alg = "tents" /\ Len(MctsKappa(qs)) \notin {1, Len(qs)}

\* one pass of `for e in reversed(path)`
BackupEdge ==
    /\ pc = "backup" /\ bi >= 1
    /\ LET e == path[bi]
           alg == mcts.algorithm
           newQ == [eQ EXCEPT ![e] = EdgeQ(e)]
           newN == [eN EXCEPT ![e] = Visit(@)]
           oe == OutEdges(edges, e[1])
           qs == [a \in 1..Len(oe) |-> newQ[oe[a]]]
           ns == [a \in 1..Len(oe) |-> newN[oe[a]]]
       IN  /\ eQ' = newQ
           /\ eN' = newN
           /\ kappa_log' = IF alg = "tents"
                           THEN [at |-> "backup", qs |-> Doubles(qs),
                                 kappa |-> MctsKappa(qs)]
                           ELSE kappa_log
           /\ IF BackupRaises(alg, qs)
              THEN /\ Raise("ValueError")
                   /\ UNCHANGED <<nV, nN, bi>>
              ELSE /\ nV' = [nV EXCEPT ![e[1]] = BackupV(alg, nV[e[1]], nN[e[1]], newQ[e], qs, ns)]
                   /\ nN' = [nN EXCEPT ![e[1]] = Visit(@)]
                   /\ bi' = bi - 1
                   /\ pc' = "backup"
                   /\ last' = Call("backup", None, e[1], None, "none")
    /\ UNCHANGED <<status, topo, state, mcts, n_simulations, i, v_hat, path,
                   probs, sims>>

\* _simulation returns tree.nodes[0]['V']; run stores it in v_hat[i]
SimEnd ==
    /\ pc = "backup" /\ bi = 0
    /\ v_hat' = [v_hat EXCEPT ![i + 1] = nV[0]]
    /\ i' = i + 1
    /\ sims' = sims + 1
    /\ pc' = "loop"
    /\ last' = Call("simulation", i, None, None, "none")
    /\ UNCHANGED <<status, topo, stats, state, mcts, n_simulations, path, bi,
                   probs, kappa_log>>

(***************************************************************************)
(* The specification.                                                      *)
(***************************************************************************)
Shapes ==
    {s \in (0..MaxK) \X (0..MaxD) : BalancedTreeNodes(s[1], s[2]) <= MaxNodes}

\* the weight vector with binary code c: edge number j (from 0) draws bit j
RECURSIVE Bit(_, _)
Bit(c, j) == IF j = 0 THEN c % 2 ELSE Bit(c \div 2, j - 1)
WeightVector(E, c) == [e \in Range(E) |-> Bit(c, e[2] - 1)]

\* the calls a client can make at this point
CanConstruct == status = "new"
CanCall == status = "constructed" /\ pc = "idle"

Next ==
    \/ /\ CanConstruct
       /\ \E s \in Shapes, alg \in Algorithms, c \in 0..MaxWeightCode :
            Construct(s[1], s[2], alg, WeightVector(BalancedTreeEdges(s[1], s[2]), c))
    \/ CanCall /\ \E s \in {None} \cup Nodes : Reset(s)
    \/ CanCall /\ \E a \in (0 - MaxK - 1)..MaxK : Step(a)
    \/ CanCall /\ \E c \in ExplorationCoeffs, alg \in Algorithms : MCTSInit(c, alg)
    \/ CanCall /\ \E n \in 0..MaxSims : RunCall(n)
    \/ SimBegin
    \/ RunReturn
    \/ Navigate
    \/ \E r \in RolloutSamples : Rollout(r)
    \/ BackupEdge
    \/ SimEnd

Spec == Init /\ [][Next]_vars


(***************************************************************************)
(* Claims.                                                                 *)
(***************************************************************************)
InitialStats ==
    /\ \A x \in Nodes : nN[x] = 0 /\ nV[x] = IntVal(0)
    /\ \A e \in Range(edges) : eN[e] = 0 /\ eQ[e] = IntVal(0)

\* C1: on a tree of depth >= 1 and with one of uct, ments, rents, tents,
\* run never raises, returns n_simulations entries after n_simulations
\* simulations, and the entry of each simulation is the root's V right after
\* its backup.
C1_RunCompletes ==
    (status = "constructed" /\ d >= 1 /\ mcts.algorithm \in MctsAlgorithms) =>
        /\ last.op = "run" =>
              /\ last.raised = "none"
              /\ Len(v_hat) = n_simulations
              /\ i = n_simulations
        /\ last.op = "simulation" => v_hat[i] = nV[0]

\* C2: step(action) at cursor s moves to the action-th child of s and returns
\* it when 0 <= action < out-degree(s); for any other action it fails and
\* leaves the cursor where it was.
C2_StepOutOfRangeFails ==
    last.op = "step" =>
        LET succ == Successors(edges, last.from)
        IN  IF 0 <= last.arg /\ last.arg < Len(succ)
            THEN /\ last.raised = "none"
                 /\ state = succ[last.arg + 1]
                 /\ last.ret = state
            ELSE /\ last.raised = "IndexError"
                 /\ state = last.from

\* the operators section 4.1 documents
DocumentedOperators == {"uct", "ments", "rents", "tents", "alpha-divergence"}

\* C3 as stated: an identifier that is none of the documented operators never
\* yields a constructed tree.
C3_UndocumentedTreeAlgorithmFails ==
    (status # "new" /\ algorithm \notin DocumentedOperators) => status = "failed"

\* C3, amended: an identifier the solver has no branch for (none of the
\* documented operators, w-mcts or dng) never yields a constructed tree, and
\* the solver's ValueError ends the construction of every tree that has an
\* edge; a search whose identifier is none of uct, ments, rents, tents raises
\* ValueError from run at the first selection of the first simulation, with
\* every N, Q and V as constructed.
C3_UnknownAlgorithmFailsFast ==
    /\ (status # "new" /\ algorithm \notin SolverAlgorithms) =>
          /\ status = "failed"
          /\ edges # <<>> => last.raised = "ValueError"
    /\ (mcts # NoMcts /\ mcts.algorithm \notin MctsAlgorithms) =>
          /\ InitialStats
          /\ sims = 0 /\ path = <<>>
          /\ pc \in {"idle", "loop", "navigate"}
          /\ (last.op = "run" /\ n_simulations > 0) => last.raised = "ValueError"

C3_Witness ==
    /\ algorithm = "tents" /\ mcts.algorithm = "bogus"
    /\ last.op = "run" /\ last.raised = "ValueError"

\* C4: a tree with one leaf (d = 0, k = 1 or k = 0) is constructed without an
\* error, and its leaf's normalised mean is 0.
C4_SingleLeafConstructs ==
    (status # "new" /\ algorithm \in SolverAlgorithms /\ (d = 0 \/ k = 1 \/ k = 0)) =>
        /\ status = "constructed"
        /\ Len(leaves) = 1
        /\ mean[leaves[1]] = IntVal(0)

RECURSIVE Geometric(_, _)
Geometric(b, e) == IF e = 0 THEN 1 ELSE Pow(b, e) + Geometric(b, e - 1)

\* C5: for k >= 1 and d >= 0 the tree has k^0 + ... + k^d nodes, and `leaves`
\* is the set of the nodes of out-degree 0 and has k^d members.
C5_NodeAndLeafCount ==
    (status # "new" /\ k >= 1) =>
        /\ n_nodes = Geometric(k, d)
        /\ Range(leaves) = {x \in Nodes : OutDegree(edges, x) = 0}
        /\ Len(leaves) = Pow(k, d)

\* C6: for k >= 1 and d >= 1 the prior of every non-leaf node has one entry
\* per child, every entry >= 0, and the entries sum to 1.
C6_PriorIsDistribution ==
    (status = "constructed" /\ k >= 1 /\ d >= 1) =>
        \A x \in Nodes : OutDegree(edges, x) > 0 =>
            /\ Len(prior[x]) = OutDegree(edges, x)
            /\ \A j \in DOMAIN prior[x] : IsNum(prior[x][j]) /\ prior[x][j].num >= 0
            /\ SeqSum(prior[x]) = IntVal(1)

\* C7: every vector ments, rents or tents samples from has one entry per
\* out-edge, no negative entry, and sums to 1.
C7_ProbsIsDistribution ==
    probs # NoProbs =>
        /\ probs.size = probs.n_actions
        /\ \A j \in DOMAIN probs.entries : probs.entries[j] # "neg"
        /\ probs.sum = "one"

\* C8: reset() without an argument returns the root, leaves the cursor at the
\* root, and changes no N, V or Q, from any cursor and any number of times.
C8_ResetIdempotent ==
    [][(last'.op = "reset" /\ last'.arg = None) =>
          (state' = 0 /\ last'.ret = 0 /\ UNCHANGED stats)]_vars

C8_Witness ==
    /\ last.op = "reset" /\ last.arg = None
    /\ last.from # 0
    /\ pc = "idle" /\ nN[0] > 0

\* C9: in every simulation the walk starts at the root, every edge of it goes
\* from the cursor to one of its children, it passes no leaf, and when it ends
\* the path is a root-to-leaf chain of d edges with the cursor on the leaf.
C9_WalkIsRootToLeafChain ==
    pc \in {"navigate", "rollout", "backup"} =>
        /\ \A j \in DOMAIN path :
              /\ path[j] \in Range(edges)
              /\ path[j][1] = (IF j = 1 THEN 0 ELSE path[j - 1][2])
              /\ j < Len(path) => path[j][2] \notin Range(leaves)
        /\ state = (IF path = <<>> THEN 0 ELSE path[Len(path)][2])
        /\ pc = "navigate" => state \notin Range(leaves)
        /\ pc \in {"rollout", "backup"} =>
              /\ Len(path) = d
              /\ state \in Range(leaves)

C9_Witness ==
    /\ pc = "rollout" /\ k = 2 /\ d = 2
    /\ sims >= 1

\* C10: the support set the search computes from a vector of Q values is the
\* support set of section 4.1 (the solver's sparse_max) for the same vector.
C10_KappaMatchesSparseMax ==
    kappa_log.at # "none" =>
        Range(kappa_log.kappa) = Range(SparseMaxKappa(kappa_log.qs))


\* C11: every edge's Q is its child's V, at every simulation boundary and
\* during the walk; while the backup runs the one edge that can differ is the
\* path edge it sets next, whose child's V has just been updated.  On a tree
\* whose leaf means are NaN both hold NaN.
C11_EdgeQIsChildV ==
    \A e \in Range(edges) :
        (pc = "backup" /\ bi >= 1 /\ e = path[bi]) \/ eQ[e] = nV[e[2]]

C11_Witness ==
    /\ pc = "loop" /\ sims >= 2 /\ d = 2
    /\ \E e \in Range(edges) :
          /\ e \notin Range(path)
          /\ eN[e] > 0 /\ eQ[e] # IntVal(0)
    /\ \E e \in Range(path) : eQ[e] # IntVal(0)

\* the N of the out-edges of node x, summed
OutEdgeVisits(x) ==
    LET oe == OutEdges(edges, x) IN IntSum([a \in 1..Len(oe) |-> eN[oe[a]]])

\* the counts are consistent: the root's N is the number of simulations
\* completed, every edge's N is its child's N, every internal node's N is the
\* sum of its out-edges' N
VisitsConsistent ==
    /\ nN[0] = sims
    /\ \A e \in Range(edges) : eN[e] = nN[e[2]]
    /\ \A x \in Nodes : OutDegree(edges, x) > 0 => nN[x] = OutEdgeVisits(x)

\* the step adds 1 to the N of the node and the edge it visits (of the edge
\* alone if the backup raises there) and leaves every other N as it is
VisitsStep ==
    LET leaf_visit(x) == pc = "rollout" /\ x = path[Len(path)][2]
        backup_visit(e) == pc = "backup" /\ bi >= 1 /\ e = path[bi]
    IN  /\ \A x \in Nodes :
              nN'[x] = IF leaf_visit(x) \/ \E e \in Range(edges) :
                                              backup_visit(e) /\ x = e[1] /\ pc' # "idle"
                       THEN nN[x] + 1 ELSE nN[x]
        /\ \A e \in Range(edges) :
              eN'[e] = IF backup_visit(e) THEN eN[e] + 1 ELSE eN[e]

\* C12: on a constructed tree no step resets an N: a step of a simulation
\* adds 1 to the N of the node and the edge it visits, every other N stays;
\* and outside a simulation's backup (at every simulation boundary, over all
\* runs) the counts are consistent.
C12_VisitCountsConsistent ==
    /\ []((status = "constructed" /\ pc \in {"idle", "loop"}) => VisitsConsistent)
    /\ [][status = "constructed" => VisitsStep]_vars

C12_Witness ==
    /\ pc = "idle" /\ sims >= 2 /\ d = 2 /\ k = 2
    /\ last.op = "run" /\ n_simulations = 1
    /\ \E x \in Nodes : nN[x] = 2 /\ x # 0
    /\ \E x \in Nodes : nN[x] = 0


====
